---------------------------- MODULE Spec2Model ----------------------------
(***************************************************************************)
(* SafeOperations (SafeOps.c): bounds-checked replacements for the C       *)
(* library's allocation, copy, string, search/replace and arithmetic       *)
(* primitives, with a thread-local last-error cell and an optional logger. *)
(*                                                                         *)
(* Memory is modelled as sequences of bytes.  A pointer argument is        *)
(* modelled by the memory it addresses (C index i is element i+1); the     *)
(* null pointer addresses nothing and is the empty sequence.  The bytes    *)
(* that follow an object in memory are not determined by the program:      *)
(* every call sees the object followed by arbitrary nonzero bytes, as many *)
(* as there are before the first zero byte in that memory, and that zero.  *)
(***************************************************************************)
EXTENDS Integers, Sequences, FiniteSets

(* ------------------------------ bounds --------------------------------- *)

\* Capacity of the destination object in the string specification.
MaxCap == 3
\* Longest source / pattern string drawn as an input in the string specification.
MaxSrc == 2
\* Capacity of the destination object, and longest string drawn, in the
\* specification with several threads.
ThreadCap == 1
\* Number of threads sharing the library in the two-thread specification.
NumThreads == 2
\* Most nonzero bytes that lie between the end of the caller's object and the
\* first zero byte in the memory that follows it.
MaxPast == 2
\* size_t arithmetic is unsigned and wraps modulo SizeModulus; every length
\* of the model is far below it.
SizeModulus == 65536

SIZE_MAX == SizeModulus - 1

\* Byte values drawn for buffer contents and strings: the terminator and two
\* distinct characters.
Char == {1, 2}
Byte == {0} \cup Char
Threads == 1..NumThreads

NULL == << >>

\* SafeOpsError (SafeOps.h)
SAFEOPS_OK == "Ok"
SAFEOPS_ERR_NULL_POINTER == "NullPointer"
SAFEOPS_ERR_OUT_OF_BOUNDS == "OutOfBounds"
SAFEOPS_ERR_OVERFLOW == "Overflow"
SAFEOPS_ERR_INVALID_PARAM == "InvalidParam"
SAFEOPS_ERR_ALLOCATION_FAILED == "AllocationFailed"
SAFEOPS_ERR_FILE_ACCESS == "FileAccess"
SAFEOPS_ERR_OVERLAP == "Overlap"
SAFEOPS_ERR_UNKNOWN == "Unknown"

\* No SetError call was made / errno was not assigned / out-parameter not written.
NoReport == "none"
Unset == "unset"
Unwritten == -1

VARIABLES
    g_lastError,   \* thread-local last-error cell: one per thread
    g_logger,      \* TRUE when a logger callback is installed
    buf,           \* the caller's destination object (its bytes)
    last,          \* the most recent call: arguments, result and effects
    reported,      \* per thread: code of its own most recent SetError ("Ok" if none)
    pc,            \* position of the running test / of the SafeFOpen call in
                   \* progress; "crash" once the process has been killed
    build,         \* the preprocessor macros defined when SafeOps.c was compiled
    heap,          \* the allocator's regions: state, bytes, number of free() calls
    ptr,           \* the caller's pointer variables: a region, or NullPtr
    released,      \* per pointer variable: calls of free made through it since it was assigned
    result,        \* the caller's int variable passed as out-parameter
    fs,            \* what the path names in the file system right now
    fds,           \* the process's open descriptors and the kind of file each refers to
    frame          \* arguments and locals of the call in progress: SafeFOpen, a
                   \* call that has tested g_logger and not yet called it, or
                   \* the call that was killed

strVars == <<g_lastError, g_logger, buf, last, reported, pc>>
heapVars == <<heap, ptr, released>>
fileVars == <<fs, fds, frame>>
vars == <<strVars, build, heapVars, result, fileVars>>

\* `last` is the observer's record of one call: its arguments, what it
\* returned, and the state it started from.  A behaviour is any sequence of
\* calls; the one made with obs = TRUE is recorded.
NoCall ==
    [op |-> "none", t |-> 0, args |-> << >>, ok |-> TRUE, err |-> NoReport,
     errno |-> Unset, out |-> Unwritten, pre |-> << >>, cells |-> << >>,
     log |-> << >>]

(* --------------------------- byte sequences ---------------------------- *)

Zeros(n) == [i \in 1..n |-> 0]

\* All sequences over S of length exactly n / at most n.
RECURSIVE SeqsOfLen(_, _)
SeqsOfLen(S, n) ==
    IF n = 0 THEN { << >> }
    ELSE { Append(s, x) : s \in SeqsOfLen(S, n - 1), x \in S }

SeqsUpTo(S, n) == UNION { SeqsOfLen(S, k) : k \in 0..n }

\* A string literal: its characters followed by the terminator.
Lit(chars) == Append(chars, 0)

\* What a pointer to an object sees: the object, then memory that is not the
\* program's to determine: the nonzero bytes past, and after them either a
\* zero byte or the end of the mapped memory.  View is the memory with the
\* zero byte; a call that examines the element after past when the mapped
\* memory ends there is killed (Segfault).
View(obj, past) == obj \o past \o <<0>>

\* The object part of a view after a call.
Object(mem, n) == SubSeq(mem, 1, n)

\* strlen: index of the first zero byte.
RECURSIVE ScanNul(_, _)
ScanNul(s, len) == IF s[len + 1] = 0 THEN len ELSE ScanNul(s, len + 1)

strlen(s) == ScanNul(s, 0)

\* The characters of the C string held in s.
CStr(s) == SubSeq(s, 1, strlen(s))

\* memcpy / memmove of n bytes of src (from C index 0) to dest at C index off.
memcpy(dest, off, src, n) ==
    [i \in 1..Len(dest) |-> IF i > off /\ i <= off + n THEN src[i - off] ELSE dest[i]]

\* strncpy(dest, src, n): the characters of src, at most n, zero-padded to n.
strncpy(dest, src, n) ==
    [i \in 1..Len(dest) |->
        IF i <= n THEN (IF i <= strlen(src) THEN src[i] ELSE 0) ELSE dest[i]]

\* needle (nl characters) lies at C index p of hay, whose terminator is at
\* C index hl.
MatchAt(hay, hl, p, needle, nl) ==
    /\ p + nl <= hl
    /\ \A k \in 1..nl : hay[p + k] = needle[k]

\* strstr(hay + from, needle): C index (from the start of hay) of the first
\* occurrence at or after from, or -1 for a null result.  (The two lengths
\* are bound to their values once, as the one element of a set.)
strstr(hay, from, needle) ==
    CHOOSE found \in
        { LET hits == { p \in from..(hl - nl) : MatchAt(hay, hl, p, needle, nl) }
          IN  IF hits = {} THEN -1
              ELSE CHOOSE p \in hits : \A q \in hits : p <= q
          : hl \in {strlen(hay)}, nl \in {strlen(needle)} } : TRUE

(* ----------------------------- diagnostics ----------------------------- *)

\* A last-error cell shared by all threads (g_lastError without thread_local).
SetErrorShared(cells, t, error) == [u \in DOMAIN cells |-> error]

\* g_lastError = error, in the calling thread's cell.
SetError(cells, t, error) == [cells EXCEPT ![t] = error]

\* What a function returns to its call: success flag, the code it passed to
\* SetError, the errno it assigned, the memory of its destination, the value
\* of its out-parameter, and the codes it handed to the logger directly.
Ret(ok, err, eno, mem, out, logs) ==
    [ok |-> ok, err |-> err, errno |-> eno, mem |-> mem, out |-> out, logs |-> logs]

Fail(err, mem) == Ret(FALSE, err, Unset, mem, Unwritten, << >>)
FailErrno(eno, mem) == Ret(FALSE, NoReport, eno, mem, Unwritten, << >>)
Done(mem, out) == Ret(TRUE, NoReport, Unset, mem, out, << >>)

(* --------------------------- bounded length ---------------------------- *)

RECURSIVE ScanLen(_, _, _)
ScanLen(str, maxLen, len) ==
    IF len < maxLen /\ str[len + 1] # 0 THEN ScanLen(str, maxLen, len + 1) ELSE len

SafeStrLen(str, maxLen, outLen) ==
    IF str = NULL \/ ~outLen
    THEN Fail(SAFEOPS_ERR_NULL_POINTER, str)
    ELSE LET len == ScanLen(str, maxLen, 0)
         IN  IF len = maxLen /\ str[len + 1] # 0
             THEN Fail(SAFEOPS_ERR_OUT_OF_BOUNDS, str)
             ELSE Done(str, len)

\* The same scan over wide characters (an element of the sequence is one
\* wchar_t).
SafeWStrLen(str, maxLen, outLen) ==
    IF str = NULL \/ ~outLen
    THEN Fail(SAFEOPS_ERR_NULL_POINTER, str)
    ELSE LET len == ScanLen(str, maxLen, 0)
         IN  IF len = maxLen /\ str[len + 1] # 0
             THEN Fail(SAFEOPS_ERR_OUT_OF_BOUNDS, str)
             ELSE Done(str, len)

(* ------------------------------ allocation ----------------------------- *)

SizeofSizeT == 8

\* calloc(1, size): heapOk says whether the allocator can satisfy the request.
SafeMalloc(size, heapOk) ==
    IF size = 0
    THEN Fail(SAFEOPS_ERR_INVALID_PARAM, NULL)
    ELSE IF size > SIZE_MAX - SizeofSizeT
    THEN Fail(SAFEOPS_ERR_OVERFLOW, NULL)
    ELSE IF ~heapOk
    THEN Fail(SAFEOPS_ERR_ALLOCATION_FAILED, NULL)
    ELSE Done(Zeros(size), Unwritten)

\* malloc(size): the bytes of the new object are whatever the memory held
\* (junk).
SafeMallocUninitialized(size, heapOk, junk) ==
    IF size = 0
    THEN Fail(SAFEOPS_ERR_INVALID_PARAM, NULL)
    ELSE IF size > SIZE_MAX - SizeofSizeT
    THEN Fail(SAFEOPS_ERR_OVERFLOW, NULL)
    ELSE IF ~heapOk
    THEN Fail(SAFEOPS_ERR_ALLOCATION_FAILED, NULL)
    ELSE Done(junk, Unwritten)

(* ----------------------------- copy / move ----------------------------- *)

\* memmove inside one memory: n bytes from address s to address d.
memmove(mem, d, s, n) ==
    [i \in 1..Len(mem) |-> IF i > d /\ i <= d + n THEN mem[s + (i - d)] ELSE mem[i]]

\* Addresses are C indices into mem; the null pointer is address -1.
NullAddr == -1

\* SafeMemCopy reporting the overlap through SetError instead of the logger.
SafeMemCopyOverlapAsError(mem, dest, destSize, src, srcSize) ==
    IF dest = NullAddr \/ src = NullAddr
    THEN Fail(SAFEOPS_ERR_NULL_POINTER, mem)
    ELSE IF srcSize > destSize
    THEN Fail(SAFEOPS_ERR_OUT_OF_BOUNDS, mem)
    ELSE LET overlap == \/ (src < dest /\ src + srcSize > dest)
                        \/ (dest < src /\ dest + destSize > src)
         IN  Ret(TRUE, IF overlap THEN SAFEOPS_ERR_OVERLAP ELSE NoReport, Unset,
                 memmove(mem, dest, src, srcSize), Unwritten, << >>)

SafeMemCopy(mem, dest, destSize, src, srcSize) ==
    IF dest = NullAddr \/ src = NullAddr
    THEN Fail(SAFEOPS_ERR_NULL_POINTER, mem)
    ELSE IF srcSize > destSize
    THEN Fail(SAFEOPS_ERR_OUT_OF_BOUNDS, mem)
    ELSE LET overlap == \/ (src < dest /\ src + srcSize > dest)
                        \/ (dest < src /\ dest + destSize > src)
         IN  Ret(TRUE, NoReport, Unset, memmove(mem, dest, src, srcSize), Unwritten,
                 IF overlap /\ g_logger THEN <<SAFEOPS_OK>> ELSE << >>)

\* SafeStrCat leaving no room for the terminator (> for >=).
SafeStrCatNoTerminatorRoom(dest, destSize, src) ==
    IF dest = NULL \/ src = NULL
    THEN Fail(SAFEOPS_ERR_NULL_POINTER, dest)
    ELSE LET d == SafeStrLen(dest, destSize, TRUE)
             s == SafeStrLen(src, SIZE_MAX, TRUE)
         IN  IF ~d.ok THEN Fail(d.err, dest)
             ELSE IF ~s.ok THEN Fail(s.err, dest)
             ELSE IF (d.out + s.out) % SizeModulus > destSize
             THEN Fail(SAFEOPS_ERR_OUT_OF_BOUNDS, dest)
             ELSE Done(memcpy(dest, d.out, src, s.out + 1), Unwritten)

SafeStrCat(dest, destSize, src) ==
    IF dest = NULL \/ src = NULL
    THEN Fail(SAFEOPS_ERR_NULL_POINTER, dest)
    ELSE LET d == SafeStrLen(dest, destSize, TRUE)
             s == SafeStrLen(src, SIZE_MAX, TRUE)
         IN  IF ~d.ok THEN Fail(d.err, dest)
             ELSE IF ~s.ok THEN Fail(s.err, dest)
             ELSE IF (d.out + s.out) % SizeModulus >= destSize
             THEN Fail(SAFEOPS_ERR_OUT_OF_BOUNDS, dest)
             ELSE Done(memcpy(dest, d.out, src, s.out + 1), Unwritten)

\* SafeStrCopy accepting a source as long as the buffer (> for >=).
SafeStrCopyOffByOne(dest, destSize, src) ==
    IF ~(dest # NULL /\ src # NULL /\ destSize > 0)
    THEN FailErrno("EINVAL", dest)
    ELSE LET srcLen == strlen(src)
         IN  IF srcLen > destSize
             THEN FailErrno("EOVERFLOW", dest)
             ELSE Done([strncpy(dest, src, destSize - 1) EXCEPT ![destSize] = 0],
                       Unwritten)

SafeStrCopy(dest, destSize, src) ==
    IF ~(dest # NULL /\ src # NULL /\ destSize > 0)
    THEN FailErrno("EINVAL", dest)
    ELSE LET srcLen == strlen(src)
         IN  IF srcLen >= destSize
             THEN FailErrno("EOVERFLOW", dest)
             ELSE Done([strncpy(dest, src, destSize - 1) EXCEPT ![destSize] = 0],
                       Unwritten)

(* --------------------------- search & replace -------------------------- *)

SafeStrFind(haystack, haystackLen, needle, outPos) ==
    IF haystack = NULL \/ needle = NULL \/ ~outPos
    THEN Fail(SAFEOPS_ERR_NULL_POINTER, haystack)
    ELSE LET needleLen == strlen(needle)
         IN  IF needleLen = 0 \/ needleLen > haystackLen
             THEN Fail(SAFEOPS_ERR_INVALID_PARAM, haystack)
             ELSE LET found == strstr(haystack, 0, needle)
                  IN  IF found = -1
                      THEN Done(haystack, haystackLen)
                      ELSE Done(haystack, found)

\* The count advancing by one character, so overlapping matches are counted.
RECURSIVE CountFromOverlapping(_, _, _)
CountFromOverlapping(str, pos, oldStr) ==
    LET p == strstr(str, pos, oldStr)
    IN  IF p = -1 THEN 0 ELSE 1 + CountFromOverlapping(str, p + 1, oldStr)

\* First loop of SafeStrReplace: occurrences counted from pos, each match
\* skipped by its full length.
RECURSIVE CountFrom(_, _, _)
CountFrom(str, pos, oldStr) ==
    LET p == strstr(str, pos, oldStr)
    IN  IF p = -1 THEN 0 ELSE 1 + CountFrom(str, p + strlen(oldStr), oldStr)

\* The rebuild without the final strcpy of the text after the last match.
RECURSIVE RebuildDropsTail(_, _, _, _)
RebuildDropsTail(str, readPos, oldStr, newStr) ==
    LET p == strstr(str, readPos, oldStr)
    IN  IF p = -1
        THEN <<0>>
        ELSE SubSeq(str, readPos + 1, p) \o CStr(newStr)
                \o RebuildDropsTail(str, p + strlen(oldStr), oldStr, newStr)

\* Second loop of SafeStrReplace: the bytes written to tempBuf from readPos
\* on (chunk, replacement, ..., then strcpy of the rest with its terminator).
RECURSIVE Rebuild(_, _, _, _)
Rebuild(str, readPos, oldStr, newStr) ==
    LET p == strstr(str, readPos, oldStr)
    IN  IF p = -1
        THEN Append(SubSeq(str, readPos + 1, strlen(str)), 0)
        ELSE SubSeq(str, readPos + 1, p) \o CStr(newStr)
                \o Rebuild(str, p + strlen(oldStr), oldStr, newStr)

SafeStrReplace(str, strSize, oldStr, newStr, outLen, heapOk) ==
    IF str = NULL \/ oldStr = NULL \/ newStr = NULL \/ ~outLen
    THEN Fail(SAFEOPS_ERR_NULL_POINTER, str)
    ELSE LET strLen == strlen(str)
             oldLen == strlen(oldStr)
             newLen == strlen(newStr)
         IN  IF oldLen = 0
             THEN Fail(SAFEOPS_ERR_INVALID_PARAM, str)
             ELSE LET count == CountFrom(str, 0, oldStr)
                      finalLen == (strLen + count * ((newLen - oldLen) % SizeModulus))
                                      % SizeModulus
                  IN  IF finalLen >= strSize
                      THEN Fail(SAFEOPS_ERR_OUT_OF_BOUNDS, str)
                      ELSE IF count = 0
                      THEN Done(str, strLen)
                      ELSE LET tempBuf == SafeMalloc(strSize, heapOk)
                           IN  IF ~tempBuf.ok
                               THEN Fail(tempBuf.err, str)
                               ELSE LET written == Rebuild(str, 0, oldStr, newStr)
                                        temp == memcpy(tempBuf.mem, 0, written, Len(written))
                                    IN  Done(memcpy(str, 0, temp, finalLen + 1), finalLen)

(* ------------------------------- inputs -------------------------------- *)

\* String literals of at most n characters.
Lits(n) == { Lit(c) : c \in SeqsUpTo(Char, n) }

\* Replacement strings of at most n characters: runs of one character.
Runs(n) == { Lit([i \in 1..k |-> 2]) : k \in 0..n }

\* The memory that follows the object, for a scan bounded by size: the scan
\* examines the elements at C indices 0..size, so only the one element next
\* to the object can be reached, and only when size is the object's length.
PastBytes(obj, size) ==
    IF size < Len(obj) THEN { << >> } ELSE SeqsUpTo(Char, 1)

\* The memory that follows the object, for a scan that runs to the first zero
\* byte (strlen, strstr): it is reached when the object holds no zero.
PastString(obj) ==
    IF \E i \in 1..Len(obj) : obj[i] = 0 THEN { << >> } ELSE SeqsUpTo(Char, MaxPast)

\* Which pointer argument of a call is null ("none": all are present).
\* When one is null the other arguments are irrelevant to the code and one
\* value of each is drawn.
Pick(nul, S) == IF nul = "none" THEN S ELSE { CHOOSE x \in S : TRUE }

Arg(nul, name, value) == IF nul = name THEN NULL ELSE value

(* ------------------------------- actions ------------------------------- *)

\* The effects of a call by thread t that returns r: SetError on the code it
\* reported (the cell, then the logger), its writes to the destination object.
\* g_logger is read twice, by the test `if (g_logger)` and by the call
\* `g_logger(...)`, with no lock: the call either runs to its return in one
\* step, or, the test having found a logger, stops before the second read
\* (frame keeps what is left to do) and goes on in CallLogger.  The second
\* way needs a frame of its own and is not open to a program that has one
\* thread; the call the observer records is one that ran to its return, and
\* what a stopped call can do beyond that is done by the calls not recorded.
\* (The call's result is bound to ret, so that it is computed once.)
Finish(t, obs, op, args, r, obj) ==
    \E ret \in {r} :
    LET rec == [op |-> op, t |-> t, args |-> args, ok |-> ret.ok, err |-> ret.err,
                errno |-> ret.errno, out |-> ret.out, pre |-> buf,
                cells |-> g_lastError,
                log |-> IF g_logger
                        THEN (IF ret.err = NoReport THEN << >> ELSE <<ret.err>>)
                                 \o ret.logs
                        ELSE << >>]
    IN  /\ g_lastError' = IF ret.err = NoReport THEN g_lastError
                          ELSE SetError(g_lastError, t, ret.err)
        /\ reported' = IF ret.err = NoReport THEN reported
                       ELSE [reported EXCEPT ![t] = ret.err]
        /\ UNCHANGED g_logger
        /\ \/ /\ buf' = obj
              /\ last' = IF obs THEN rec ELSE NoCall
              /\ frame' = frame
           \/ /\ g_logger
              /\ ret.err # NoReport \/ ret.logs # << >>
              /\ ~obs
              /\ frame' = [t |-> t, obj |-> obj]
              /\ UNCHANGED <<buf, last>>

\* The second read of g_logger by the thread that stopped after the test:
\* g_logger(error, message, ...).  If another thread has stored NULL in the
\* meantime the call goes through a null pointer and the process is killed;
\* otherwise the logger runs and the function goes on to its return.
\* The number of elements a scan bounded by maxLen examines: those at the C
\* indices 0..len, the last one by the loop or by the test that follows it.
Examined(str, maxLen) == ScanLen(str, maxLen, 0) + 1

\* A read outside the caller's object is undefined: when the memory after
\* the object and past is not mapped, a call that examines more elements
\* than these is killed by the fault before it has written or reported
\* anything, and never returns.
Segfault(t, op, args, examined) ==
    /\ examined > Len(buf) + Len(args.past)
    /\ pc' = "crash"
    /\ frame' = [t |-> t, op |-> op, args |-> args]
    /\ UNCHANGED <<g_lastError, g_logger, buf, last, reported>>

CallLogger ==
    /\ frame # << >>
    /\ IF g_logger
       THEN /\ buf' = frame.obj
            /\ pc' = pc
       ELSE /\ pc' = "crash"
            /\ UNCHANGED buf
    /\ frame' = << >>
    /\ UNCHANGED <<g_lastError, g_logger, reported, last>>

\* SafeOpsSetLogger(logger): g_logger = logger, a callback (TRUE) or NULL
\* (FALSE), whatever was installed before.
CallSafeOpsSetLogger(t, obs) ==
    \E logger \in BOOLEAN :
    /\ g_logger' = logger
    /\ last' = IF ~obs THEN NoCall
               ELSE [NoCall EXCEPT !.op = "SafeOpsSetLogger", !.t = t,
                                   !.args = [nul |-> "none", logger |-> logger],
                                   !.pre = buf, !.cells = g_lastError]
    /\ UNCHANGED <<g_lastError, buf, reported, pc>>

CallSafeOpsGetLastError(t, obs) ==
    /\ obs
    /\ last' = [NoCall EXCEPT !.op = "SafeOpsGetLastError", !.t = t, !.pre = buf,
                              !.cells = g_lastError, !.out = g_lastError[t]]
    /\ UNCHANGED <<g_lastError, g_logger, buf, reported, pc>>

CallSafeStrLen(t, obs) ==
    \E nul \in {"none", "str", "outLen"} :
    \E maxLen \in Pick(nul, 0..Len(buf)) :
    \E past \in Pick(nul, PastBytes(buf, maxLen)) :
        LET r == SafeStrLen(Arg(nul, "str", View(buf, past)), maxLen, nul # "outLen")
            args == [nul |-> nul, size |-> maxLen, past |-> past]
        IN  \/ Finish(t, obs, "SafeStrLen", args, r, buf) /\ UNCHANGED pc
            \/ /\ nul = "none"
               /\ Segfault(t, "SafeStrLen", args, Examined(View(buf, past), maxLen))

CallSafeWStrLen(t, obs) ==
    \E nul \in {"none", "str", "outLen"} :
    \E maxLen \in Pick(nul, 0..Len(buf)) :
    \E past \in Pick(nul, PastBytes(buf, maxLen)) :
        LET r == SafeWStrLen(Arg(nul, "str", View(buf, past)), maxLen, nul # "outLen")
            args == [nul |-> nul, size |-> maxLen, past |-> past]
        IN  \/ Finish(t, obs, "SafeWStrLen", args, r, buf) /\ UNCHANGED pc
            \/ /\ nul = "none"
               /\ Segfault(t, "SafeWStrLen", args, Examined(View(buf, past), maxLen))

CallSafeStrCopy(t, obs, n) ==
    \E nul \in {"none", "dest", "src"} :
    \E destSize \in Pick(nul, 0..Len(buf)) :
    \E src \in Pick(nul, Lits(n)) :
        LET r == SafeStrCopy(Arg(nul, "dest", buf), destSize, Arg(nul, "src", src))
        IN  /\ Finish(t, obs, "SafeStrCopy",
                      [nul |-> nul, size |-> destSize, src |-> src],
                      r, IF nul = "dest" THEN buf ELSE r.mem)
            /\ UNCHANGED pc

CallSafeStrCat(t, obs, n) ==
    \E nul \in {"none", "dest", "src"} :
    \E destSize \in Pick(nul, 0..Len(buf)) :
    \E src \in Pick(nul, Lits(n)) :
    \E past \in Pick(nul, PastBytes(buf, destSize)) :
        LET r == SafeStrCat(Arg(nul, "dest", View(buf, past)), destSize,
                            Arg(nul, "src", src))
            args == [nul |-> nul, size |-> destSize, src |-> src, past |-> past]
        IN  \/ /\ Finish(t, obs, "SafeStrCat", args,
                          r, IF nul = "dest" THEN buf ELSE Object(r.mem, Len(buf)))
               /\ UNCHANGED pc
            \/ /\ nul = "none"
               /\ Segfault(t, "SafeStrCat", args, Examined(View(buf, past), destSize))

\* Both regions lie inside the caller's object.
CallSafeMemCopy(t, obs) ==
    \E nul \in {"none", "dest", "src"} :
    \E dest \in Pick(nul, 0..Len(buf)), src \in Pick(nul, 0..Len(buf)) :
    \E destSize \in Pick(nul, 0..(Len(buf) - dest)) :
    \E srcSize \in Pick(nul, 0..(Len(buf) - src)) :
        LET r == SafeMemCopy(buf, IF nul = "dest" THEN NullAddr ELSE dest, destSize,
                             IF nul = "src" THEN NullAddr ELSE src, srcSize)
        IN  /\ Finish(t, obs, "SafeMemCopy",
                      [nul |-> nul, dest |-> dest, size |-> destSize, src |-> src,
                       srcSize |-> srcSize], r, r.mem)
            /\ UNCHANGED pc

\* strstr runs on the haystack once the needle's length has passed the test;
\* on a haystack without terminator it may return a match it finds or read
\* on to the end of the mapped memory.
CallSafeStrFind(t, obs, n) ==
    \E nul \in {"none", "haystack", "needle", "outPos"} :
    \E haystackLen \in Pick(nul, 0..Len(buf)) :
    \E needle \in Pick(nul, Lits(n)) :
    \E past \in Pick(nul, PastString(buf)) :
        LET r == SafeStrFind(Arg(nul, "haystack", View(buf, past)), haystackLen,
                             Arg(nul, "needle", needle), nul # "outPos")
            args == [nul |-> nul, size |-> haystackLen, src |-> needle, past |-> past]
        IN  \/ Finish(t, obs, "SafeStrFind", args, r, buf) /\ UNCHANGED pc
            \/ /\ nul = "none"
               /\ strlen(needle) # 0 /\ strlen(needle) <= haystackLen
               /\ Segfault(t, "SafeStrFind", args, strlen(View(buf, past)) + 1)

\* The text to find is any string, its replacement a run of one character.
\* The scratch allocation can fail (heapOk = FALSE) in the calls that reach it:
\* those are the calls that then report the failed allocation.
CallSafeStrReplace(t, obs, n) ==
    \E nul \in {"none", "str", "oldStr", "newStr", "outLen"} :
    \E strSize \in Pick(nul, 0..Len(buf)) :
    \E oldStr \in Pick(nul, Lits(n)), newStr \in Pick(nul, Runs(n)) :
    \E past \in Pick(nul, PastString(buf)) :
        \/ \E heapOk \in BOOLEAN :
           \E r \in {SafeStrReplace(Arg(nul, "str", View(buf, past)), strSize,
                                    Arg(nul, "oldStr", oldStr), Arg(nul, "newStr", newStr),
                                    nul # "outLen", heapOk)} :
                /\ ~heapOk => r.err = SAFEOPS_ERR_ALLOCATION_FAILED
                /\ Finish(t, obs, "SafeStrReplace",
                          [nul |-> nul, size |-> strSize, old |-> oldStr, new |-> newStr,
                           past |-> past, heapOk |-> heapOk],
                          r, IF nul = "str" THEN buf ELSE Object(r.mem, Len(buf)))
                /\ UNCHANGED pc
        \/ /\ nul = "none"
           /\ Segfault(t, "SafeStrReplace",
                       [nul |-> nul, size |-> strSize, old |-> oldStr, new |-> newStr,
                        past |-> past], strlen(View(buf, past)) + 1)

(* ---------------------------- specifications --------------------------- *)

InitCells ==
    /\ g_lastError = [t \in Threads |-> SAFEOPS_OK]
    /\ g_logger = FALSE
    /\ reported = [t \in Threads |-> SAFEOPS_OK]
    /\ last = NoCall

\* A program that allocates nothing, passes no int out-parameter and opens no
\* file, compiled by GCC on a POSIX system.
NoHeap == heap = << >> /\ ptr = << >> /\ released = << >>
NoFiles == fs = "missing" /\ fds = << >> /\ frame = << >>
StringsOnly == build = {"__GNUC__", "O_NOFOLLOW"} /\ NoHeap /\ result = 0 /\ NoFiles

\* Several threads share the library and one object.  The callers take
\* turns for the calls that work on the object (a lock of their own), so one
\* such call is in progress at a time; the library has no lock on g_logger,
\* and SafeOpsSetLogger, which takes no object, runs on another thread at any
\* moment, also between the two reads of g_logger in the call in progress.
\* The threads are alike, and the call the observer records is one of the
\* first thread's.
Init ==
    /\ InitCells
    /\ pc = "idle"
    /\ buf \in SeqsOfLen(Byte, ThreadCap)
    /\ StringsOnly

Next ==
    /\ pc = "idle"
    /\ UNCHANGED <<build, heapVars, result, fs, fds>>
    /\ \/ /\ last = NoCall
          /\ frame = << >>
          /\ \E t \in Threads, obs \in BOOLEAN :
             /\ obs => t = 1
             /\ \/ CallSafeOpsSetLogger(t, obs) /\ UNCHANGED frame
                \/ CallSafeOpsGetLastError(t, obs) /\ UNCHANGED frame
                \/ CallSafeStrLen(t, obs)
                \/ CallSafeWStrLen(t, obs)
                \/ CallSafeStrCopy(t, obs, ThreadCap)
                \/ CallSafeStrCat(t, obs, ThreadCap)
                \/ CallSafeMemCopy(t, obs)
                \/ CallSafeStrFind(t, obs, ThreadCap)
                \/ CallSafeStrReplace(t, obs, ThreadCap)
       \/ /\ frame # << >>
          /\ \E u \in Threads \ {frame.t} : CallSafeOpsSetLogger(u, FALSE)
          /\ UNCHANGED <<pc, frame>>
       \/ CallLogger

Spec == Init /\ [][Next]_vars

\* One thread applies the string and memory operations to an object of
\* MaxCap bytes holding any content.  No other thread runs between a call's
\* test of g_logger and its call of it: frame changes only when a call is
\* killed.
InitStr ==
    /\ InitCells
    /\ pc = "idle"
    /\ buf \in SeqsOfLen(Byte, MaxCap)
    /\ StringsOnly

NextStr ==
    /\ pc = "idle"
    /\ last = NoCall
    /\ UNCHANGED <<build, heapVars, result, fs, fds>>
    /\ \E obs \in BOOLEAN :
        \/ CallSafeOpsSetLogger(1, obs)
        \/ CallSafeOpsGetLastError(1, obs)
        \/ CallSafeStrLen(1, obs)
        \/ CallSafeWStrLen(1, obs)
        \/ CallSafeStrCopy(1, obs, MaxSrc)
        \/ CallSafeStrCat(1, obs, MaxSrc)
        \/ CallSafeMemCopy(1, obs)
        \/ CallSafeStrFind(1, obs, MaxSrc)
        \/ CallSafeStrReplace(1, obs, MaxSrc)
    /\ pc' = "idle" => UNCHANGED frame

SpecStr == InitStr /\ [][NextStr]_vars

(* ----------------------- test_string_operations ------------------------ *)

\* char dest[50] = {0}
TestCap == 50

TestSrc == Lit(<<72, 101, 108, 108, 111, 44, 32, 87, 111, 114, 108, 100, 33>>)
TestAppend == Lit(<<32, 72, 111, 119, 32, 97, 114, 101, 32, 121, 111, 117, 63>>)
TestOld == Lit(<<87, 111, 114, 108, 100>>)
TestNew == Lit(<<69, 118, 101, 114, 121, 111, 110, 101>>)

\* The test's calls in program order; a failed call is printed and the run
\* goes on.  The four calls pass sizeof(dest); the object is followed by
\* other stack memory (past), which no call of the test examines: the array
\* starts zeroed and each call leaves a terminator in it.
TestCopy ==
    /\ pc = "copy"
    /\ pc' = "cat"
    /\ UNCHANGED <<build, heapVars, result, fileVars>>
    /\ LET r == SafeStrCopy(buf, Len(buf), TestSrc)
       IN  Finish(1, TRUE, "SafeStrCopy", [nul |-> "none", size |-> Len(buf),
                  src |-> TestSrc], r, r.mem)

TestCat ==
    /\ pc = "cat"
    /\ pc' = "find"
    /\ UNCHANGED <<build, heapVars, result, fileVars>>
    /\ \E past \in PastBytes(buf, Len(buf)) :
        LET r == SafeStrCat(View(buf, past), Len(buf), TestAppend)
        IN  Finish(1, TRUE, "SafeStrCat", [nul |-> "none", size |-> Len(buf),
                   src |-> TestAppend, past |-> past], r, Object(r.mem, Len(buf)))

TestFind ==
    /\ pc = "find"
    /\ pc' = "replace"
    /\ UNCHANGED <<build, heapVars, result, fileVars>>
    /\ \E past \in PastString(buf) :
        LET r == SafeStrFind(View(buf, past), strlen(View(buf, past)), TestOld, TRUE)
        IN  Finish(1, TRUE, "SafeStrFind", [nul |-> "none",
                   size |-> strlen(View(buf, past)), src |-> TestOld, past |-> past],
                   r, buf)

TestReplace ==
    /\ pc = "replace"
    /\ pc' = "done"
    /\ UNCHANGED <<build, heapVars, result, fileVars>>
    /\ \E past \in PastString(buf), heapOk \in BOOLEAN :
        LET r == SafeStrReplace(View(buf, past), Len(buf), TestOld, TestNew, TRUE, heapOk)
        IN  Finish(1, TRUE, "SafeStrReplace", [nul |-> "none", size |-> Len(buf),
                   old |-> TestOld, new |-> TestNew, past |-> past, heapOk |-> heapOk],
                   r, Object(r.mem, Len(buf)))

\* The test run on a zero-initialised array of any size up to the test's.
InitE2E ==
    /\ InitCells
    /\ pc = "copy"
    /\ \E c \in 1..TestCap : buf = Zeros(c)
    /\ StringsOnly

NextE2E == TestCopy \/ TestCat \/ TestFind \/ TestReplace

SpecE2E == InitE2E /\ [][NextE2E]_vars

(* ------------------------ allocation and release ----------------------- *)

\* Number of addresses the allocator hands out, of pointer variables the
\* caller keeps, and the largest allocation in bytes.
NumRegions == 2
NumHandles == 2
RegionCap == 1
Regions == 1..NumRegions
Handles == 1..NumHandles

\* A pointer is the region it addresses; the null pointer addresses none.
NullPtr == 0

\* A region the allocator has not handed out yet.
Unused == [state |-> "unused", mem |-> << >>, frees |-> 0]

\* The regions calloc and malloc can return: one that was freed (its address
\* is used again) or the lowest one never handed out.
Available(hp) ==
    { x \in Regions : hp[x].state = "freed" }
        \cup { x \in Regions : /\ hp[x].state = "unused"
                                /\ \A y \in 1..(x - 1) : hp[y].state # "unused" }

\* free(p): the region goes back to the allocator, and what it holds from
\* then on is the allocator's business.  frees counts the calls of free on
\* the region since it was handed out.
free(hp, p) == [hp EXCEPT ![p].state = "freed", ![p].mem = << >>, ![p].frees = @ + 1]

\* memset(p, 0, size)
memset(hp, p, size) ==
    [hp EXCEPT ![p].mem = [i \in 1..Len(@) |-> IF i <= size THEN 0 ELSE @[i]]]

\* SafeFree without the final *ptrRef = NULL.
SafeFreeKeepsPointer(hp, ptrRef) ==
    IF ptrRef = NULL \/ ptrRef[1] = NullPtr
    THEN Done([heap |-> hp, ref |-> ptrRef], Unwritten)
    ELSE Done([heap |-> free(hp, ptrRef[1]), ref |-> ptrRef], hp[ptrRef[1]].mem)

\* ptrRef addresses the caller's pointer variable: <<p>>, or NULL.  The
\* result holds the heap and the pointer variable after the call and, for
\* the observer, the bytes the region held when it was passed to free.
SafeFree(hp, ptrRef) ==
    IF ptrRef = NULL \/ ptrRef[1] = NullPtr
    THEN Done([heap |-> hp, ref |-> ptrRef], Unwritten)
    ELSE Done([heap |-> free(hp, ptrRef[1]), ref |-> <<NullPtr>>], hp[ptrRef[1]].mem)

SafeFreeTyped(hp, ptrRef, size) ==
    IF ptrRef = NULL \/ ptrRef[1] = NullPtr
    THEN FailErrno("EINVAL", [heap |-> hp, ref |-> ptrRef])
    ELSE LET zeroed == memset(hp, ptrRef[1], size)
         IN  Done([heap |-> free(zeroed, ptrRef[1]), ref |-> <<NullPtr>>],
                  zeroed[ptrRef[1]].mem)

\* The effects of a call on the heap by thread 1 that returned r.
FinishHeap(obs, op, args, r) ==
    /\ g_lastError' = IF r.err = NoReport THEN g_lastError
                      ELSE SetError(g_lastError, 1, r.err)
    /\ reported' = IF r.err = NoReport THEN reported
                   ELSE [reported EXCEPT ![1] = r.err]
    /\ last' = IF ~obs THEN NoCall
               ELSE [op |-> op, t |-> 1, args |-> args, ok |-> r.ok, err |-> r.err,
                     errno |-> r.errno, out |-> r.out,
                     pre |-> [heap |-> heap, ptr |-> ptr],
                     cells |-> g_lastError,
                     log |-> IF g_logger /\ r.err # NoReport THEN <<r.err>> ELSE << >>]

\* ptr[h] = the result r of an allocation call: the pointer variable is
\* overwritten with the region handed out, or with NULL.
Assigned(h, r) ==
    \E x \in IF r.ok THEN Available(heap) ELSE {NullPtr} :
        /\ heap' = IF r.ok
                   THEN [heap EXCEPT ![x] = [state |-> "live", mem |-> r.mem,
                                             frees |-> 0]]
                   ELSE heap
        /\ ptr' = [ptr EXCEPT ![h] = x]
        /\ released' = [released EXCEPT ![h] = 0]

\* ptr[h] = SafeMalloc(size).  The observed calls are the releases.
CallSafeMalloc(h) ==
    \E size \in 0..RegionCap, heapOk \in BOOLEAN :
        LET r == SafeMalloc(size, heapOk)
        IN  /\ Assigned(h, r)
            /\ FinishHeap(FALSE, "SafeMalloc", [nul |-> "none", h |-> h, size |-> size], r)
            /\ UNCHANGED pc

\* What the memory of a new object of size bytes can hold: zeros, or bytes
\* that are not zero.  No function of the library reads the bytes of a
\* region.
Junk(size) == {Zeros(size), [i \in 1..size |-> 1]}

\* ptr[h] = SafeMallocUninitialized(size) (a call that fails hands out no
\* object, and one value of junk is drawn).
CallSafeMallocUninitialized(h) ==
    \E size \in 0..RegionCap, heapOk \in BOOLEAN :
    \E junk \in Junk(size) :
        LET r == SafeMallocUninitialized(size, heapOk, junk)
        IN  /\ ~r.ok => junk = Zeros(size)
            /\ Assigned(h, r)
            /\ FinishHeap(FALSE, "SafeMallocUninitialized",
                          [nul |-> "none", h |-> h, size |-> size], r)
            /\ UNCHANGED pc

\* The caller copies one pointer variable into another (an alias).
CopyPointer(h, k) ==
    /\ h # k
    /\ ptr[k] # ptr[h]
    /\ ptr' = [ptr EXCEPT ![k] = ptr[h]]
    /\ released' = [released EXCEPT ![k] = 0]
    /\ UNCHANGED <<heap, g_lastError, reported, last, pc>>

\* The caller fills a live region it has not written yet with nonzero bytes.
Store(h) ==
    /\ ptr[h] # NullPtr
    /\ heap[ptr[h]].state = "live"
    /\ heap[ptr[h]].mem = Zeros(Len(heap[ptr[h]].mem))
    /\ heap' = [heap EXCEPT ![ptr[h]].mem = [i \in 1..Len(@) |-> 1]]
    /\ UNCHANGED <<ptr, released, g_lastError, reported, last, pc>>

\* What a release through pointer variable h did: the heap and the variable
\* after the call, and the call of free added to the variable's count if free
\* was called.  A variable that kept the address of a freed region addresses
\* the new allocation once the address is used again, and a release through
\* it frees that allocation.  Passing free a region that is not live is
\* undefined: the allocator aborts the run, or its bookkeeping is corrupt
\* from then on; the program is followed no further in either case.
Released(h, nul, r) ==
    LET p == ptr[h]
        called == p # NullPtr /\ r.mem.heap[p].frees # heap[p].frees
    IN  /\ heap' = r.mem.heap
        /\ ptr' = IF nul = "ptrRef" THEN ptr ELSE [ptr EXCEPT ![h] = r.mem.ref[1]]
        /\ released' = IF called THEN [released EXCEPT ![h] = @ + 1]
                       ELSE released
        /\ pc' \in IF called /\ heap[p].state # "live" THEN {"abort", "corrupt"}
                   ELSE {"idle"}

CallSafeFree(obs, h) ==
    \E nul \in {"none", "ptrRef"} :
        LET r == SafeFree(heap, Arg(nul, "ptrRef", <<ptr[h]>>))
        IN  /\ Released(h, nul, r)
            /\ FinishHeap(obs, "SafeFree", [nul |-> nul, h |-> h], r)

\* size is at most the size of the region the pointer addresses.
CallSafeFreeTyped(obs, h) ==
    \E nul \in {"none", "ptrRef"} :
    \E size \in 0..(IF ptr[h] = NullPtr THEN RegionCap ELSE Len(heap[ptr[h]].mem)) :
        LET r == SafeFreeTyped(heap, Arg(nul, "ptrRef", <<ptr[h]>>), size)
        IN  /\ Released(h, nul, r)
            /\ FinishHeap(obs, "SafeFreeTyped", [nul |-> nul, h |-> h, size |-> size], r)

InitHeap ==
    /\ InitCells
    /\ pc = "idle"
    /\ buf = << >>
    /\ build = {"__GNUC__", "O_NOFOLLOW"}
    /\ heap = [x \in Regions |-> Unused]
    /\ ptr = [h \in Handles |-> NullPtr]
    /\ released = [h \in Handles |-> 0]
    /\ result = 0
    /\ NoFiles

\* The observed release is one made through the first pointer variable.
NextHeap ==
    /\ last = NoCall
    /\ pc = "idle"
    /\ UNCHANGED <<g_logger, buf, build, result, fileVars>>
    /\ \E h \in Handles :
        \/ CallSafeMalloc(h)
        \/ CallSafeMallocUninitialized(h)
        \/ \E k \in Handles : CopyPointer(h, k)
        \/ Store(h)
        \/ \E obs \in BOOLEAN : (obs => h = 1) /\ CallSafeFree(obs, h)
        \/ \E obs \in BOOLEAN : (obs => h = 1) /\ CallSafeFreeTyped(obs, h)

SpecHeap == InitHeap /\ [][NextHeap]_vars

(* ------------------- indexed access and arithmetic --------------------- *)

\* Width of int in bits; long long is twice as wide.
IntBits == 3
\* Elements of the caller's int array.
ArrayLen == 2

INT_MAX == 2^(IntBits - 1) - 1
INT_MIN == -(2^(IntBits - 1))
IntRange == INT_MIN..INT_MAX
LongLong == -(2^(2 * IntBits - 1))..(2^(2 * IntBits - 1) - 1)

\* Values the caller writes into the array.
IntSample == {INT_MIN, -1, 0, 1, INT_MAX}

\* An integer reduced to the int that has the same low IntBits bits.
WrapInt(x) == ((x - INT_MIN) % 2^IntBits) + INT_MIN

\* An int out-parameter addresses the caller's int: <<v>>, or it is NULL.
\* The result's mem is the array (SafeWriteInt) or the caller's int after the
\* call (the other functions).

SafeWriteIntInclusive(array, arraySize, index, value) ==
    IF array = NULL
    THEN FailErrno("EINVAL", array)
    ELSE IF ~(index <= arraySize)
    THEN FailErrno("EINVAL", array)
    ELSE Done([i \in 1..Len(array) |-> IF i = index + 1 THEN value ELSE array[i]],
              Unwritten)

SafeWriteInt(array, arraySize, index, value) ==
    IF array = NULL
    THEN FailErrno("EINVAL", array)
    ELSE IF ~(index < arraySize)
    THEN FailErrno("EINVAL", array)
    ELSE Done([array EXCEPT ![index + 1] = value], Unwritten)

SafeReadInt(array, arraySize, index, outValue) ==
    IF ~(array # NULL /\ outValue # NULL)
    THEN FailErrno("EINVAL", outValue)
    ELSE IF ~(index < arraySize)
    THEN FailErrno("EINVAL", outValue)
    ELSE Done(<<array[index + 1]>>, Unwritten)

\* __builtin_sadd_overflow(a, b, res): stores the sum wrapped to int in *res
\* and tells whether the sum did not fit.
builtin_sadd_overflow(a, b) ==
    [stored |-> WrapInt(a + b), overflow |-> WrapInt(a + b) # a + b]

\* SafeAddInt that checks the upper end only.
SafeAddIntUpperOnly(bld, a, b, res) ==
    IF res = NULL
    THEN FailErrno("EINVAL", res)
    ELSE IF b > 0 /\ a > INT_MAX - b
    THEN FailErrno("EOVERFLOW", res)
    ELSE Done(<<WrapInt(a + b)>>, Unwritten)

\* bld: the macros the build defines.  With __GNUC__ or __clang__ the builtin
\* has stored before its verdict is looked at.
SafeAddInt(bld, a, b, res) ==
    IF res = NULL
    THEN FailErrno("EINVAL", res)
    ELSE IF "__GNUC__" \in bld \/ "__clang__" \in bld
    THEN LET r == builtin_sadd_overflow(a, b)
         IN  IF r.overflow
             THEN FailErrno("EOVERFLOW", <<r.stored>>)
             ELSE Done(<<r.stored>>, Unwritten)
    ELSE IF (b > 0 /\ a > INT_MAX - b) \/ (b < 0 /\ a < INT_MIN - b)
    THEN FailErrno("EOVERFLOW", res)
    ELSE Done(<<a + b>>, Unwritten)

SafeCastLongLongToInt(val, out) ==
    IF out = NULL
    THEN FailErrno("EINVAL", out)
    ELSE IF val > INT_MAX \/ val < INT_MIN
    THEN FailErrno("EOVERFLOW", out)
    ELSE Done(<<WrapInt(val)>>, Unwritten)

\* The effects of a call by thread 1 that returned r, on the array and on the
\* caller's int.  These functions report through errno only.
FinishInt(obs, op, args, r, array, res) ==
    /\ buf' = array
    /\ result' = IF res = NULL THEN result ELSE res[1]
    /\ last' = IF ~obs THEN NoCall
               ELSE [op |-> op, t |-> 1, args |-> args, ok |-> r.ok, err |-> r.err,
                     errno |-> r.errno, out |-> r.out,
                     pre |-> [array |-> buf, result |-> result],
                     cells |-> g_lastError, log |-> << >>]
    /\ UNCHANGED <<g_lastError, reported>>

\* arraySize is at most the number of elements the array has.
CallSafeWriteInt(obs) ==
    \E nul \in {"none", "array"}, arraySize \in 0..ArrayLen, index \in 0..ArrayLen,
       value \in IntSample :
        LET r == SafeWriteInt(Arg(nul, "array", buf), arraySize, index, value)
        IN  FinishInt(obs, "SafeWriteInt",
                      [nul |-> nul, size |-> arraySize, index |-> index, value |-> value],
                      r, IF nul = "array" THEN buf ELSE r.mem, NULL)

CallSafeReadInt(obs) ==
    \E nul \in {"none", "array", "outValue"}, arraySize \in 0..ArrayLen,
       index \in 0..ArrayLen :
        LET r == SafeReadInt(Arg(nul, "array", buf), arraySize, index,
                             Arg(nul, "outValue", <<result>>))
        IN  FinishInt(obs, "SafeReadInt",
                      [nul |-> nul, size |-> arraySize, index |-> index], r, buf, r.mem)

CallSafeAddInt(obs) ==
    \E nul \in {"none", "result"}, a \in IntRange, b \in IntRange :
        LET r == SafeAddInt(build, a, b, Arg(nul, "result", <<result>>))
        IN  FinishInt(obs, "SafeAddInt", [nul |-> nul, a |-> a, b |-> b], r, buf, r.mem)

CallSafeCastLongLongToInt(obs) ==
    \E nul \in {"none", "out"}, val \in LongLong :
        LET r == SafeCastLongLongToInt(val, Arg(nul, "out", <<result>>))
        IN  FinishInt(obs, "SafeCastLongLongToInt", [nul |-> nul, val |-> val], r,
                      buf, r.mem)

\* test_array_operations: a write, then a read of the same index into value.
TestWriteThenRead(obs) ==
    \E index \in 0..(ArrayLen - 1), value \in IntSample :
        LET w == SafeWriteInt(buf, ArrayLen, index, value)
            r == SafeReadInt(w.mem, ArrayLen, index, <<result>>)
        IN  FinishInt(obs, "test_array_operations",
                      [nul |-> "none", size |-> ArrayLen, index |-> index,
                       value |-> value],
                      [r EXCEPT !.ok = w.ok /\ r.ok], w.mem, r.mem)

\* int array[ArrayLen] = {0}; the caller's int holds any value; the compiler
\* defines __GNUC__ (GCC), __clang__ only (clang-cl), or neither.
InitInt ==
    /\ InitCells
    /\ pc = "idle"
    /\ buf = Zeros(ArrayLen)
    /\ result \in IntRange
    /\ build \in {{"__GNUC__"}, {"__clang__"}, {}}
    /\ NoHeap
    /\ NoFiles

NextInt ==
    /\ last = NoCall
    /\ UNCHANGED <<g_logger, pc, build, heapVars, fileVars>>
    /\ \E obs \in BOOLEAN :
        \/ CallSafeWriteInt(obs)
        \/ CallSafeReadInt(obs)
        \/ CallSafeAddInt(obs)
        \/ CallSafeCastLongLongToInt(obs)
        \/ TestWriteThenRead(obs)

SpecInt == InitInt /\ [][NextInt]_vars

(* ------------------------------ SafeFOpen ------------------------------ *)

\* Descriptors the process can have open at once.
MaxOpen == 2

Descriptors == 1..MaxOpen

\* What the path names: nothing, a regular file, a directory, a device, or a
\* symbolic link to a regular file or to a device.
FsStates == {"missing", "regular", "directory", "device", "linkToRegular", "linkToDevice"}
IsLink(f) == f \in {"linkToRegular", "linkToDevice"}
Target(f) == IF f = "linkToRegular" THEN "regular"
             ELSE IF f = "linkToDevice" THEN "device" ELSE f

\* mode is the set of characters of the mode string; "+" asks for a stream
\* that both reads and writes.
Modes == {{"r"}, {"w"}, {"a"}, {"r", "+"}, {"w", "+"}, {"a", "+"}}

\* SafeFileOpts values; opts = NULL stands for the defaults.
defaultOpts == [followSymlinks |-> FALSE, requireRegularFile |-> TRUE]
FileOpts == [followSymlinks : BOOLEAN, requireRegularFile : BOOLEAN]

\* The flags SafeFOpen passes to open.
OpenFlags(bld, mode, opts) ==
    (IF "w" \in mode THEN {"O_WRONLY", "O_CREAT", "O_TRUNC"}
     ELSE IF "a" \in mode THEN {"O_WRONLY", "O_CREAT", "O_APPEND"}
     ELSE {"O_RDONLY"})
    \cup (IF ~opts.followSymlinks /\ "O_NOFOLLOW" \in bld THEN {"O_NOFOLLOW"} ELSE {})

\* open(path, flags): the object the new descriptor refers to and what the
\* path names afterwards, or a failure.  did is what the open did to the
\* file: O_CREAT creates a missing file, O_TRUNC cuts an existing regular
\* file to length zero.
open(f, flags) ==
    IF IsLink(f) /\ "O_NOFOLLOW" \in flags
    THEN [ok |-> FALSE, kind |-> "ELOOP", fs |-> f, did |-> {}]
    ELSE IF f = "missing"
    THEN IF "O_CREAT" \in flags
         THEN [ok |-> TRUE, kind |-> "regular", fs |-> "regular", did |-> {"created"}]
         ELSE [ok |-> FALSE, kind |-> "ENOENT", fs |-> f, did |-> {}]
    ELSE IF Target(f) = "directory" /\ "O_WRONLY" \in flags
    THEN [ok |-> FALSE, kind |-> "EISDIR", fs |-> f, did |-> {}]
    ELSE [ok |-> TRUE, kind |-> Target(f), fs |-> f,
          did |-> IF "O_TRUNC" \in flags /\ Target(f) = "regular"
                  THEN {"truncated"} ELSE {}]

\* fopen_s(&fp, path, mode): resolves links; a directory cannot be opened.
fopen_s(f, mode) ==
    IF f = "missing"
    THEN IF mode \cap {"w", "a"} # {}
         THEN [ok |-> TRUE, kind |-> "regular", fs |-> "regular", did |-> {"created"}]
         ELSE [ok |-> FALSE, kind |-> "ENOENT", fs |-> f, did |-> {}]
    ELSE IF Target(f) = "directory"
    THEN [ok |-> FALSE, kind |-> "EACCES", fs |-> f, did |-> {}]
    ELSE [ok |-> TRUE, kind |-> Target(f), fs |-> f,
          did |-> IF "w" \in mode /\ Target(f) = "regular"
                  THEN {"truncated"} ELSE {}]

\* fdopen(fd, mode) on a descriptor opened with flags: a C library that
\* compares the two refuses (EINVAL) a mode that reads on a write-only
\* descriptor or writes on a read-only one.
ModeAgrees(flags, mode) ==
    /\ mode \cap {"r", "+"} # {} => "O_WRONLY" \notin flags
    /\ mode \cap {"w", "a", "+"} # {} => "O_RDONLY" \notin flags

\* close(fd), and fclose(fp) of the stream over fd.
close(fdt, fd) == [fdt EXCEPT ![fd] = "closed"]
fclose(fdt, fd) == [fdt EXCEPT ![fd] = "closed"]

Open(fdt) == { d \in Descriptors : fdt[d] # "closed" }
LowestFree(fdt) == CHOOSE d \in Descriptors \ Open(fdt) : \A e \in Descriptors \ Open(fdt) : d <= e

S_ISREG(st) == st = "regular"

\* SafeFOpen returns to its caller: the code passed to SetError (if any), the
\* descriptor table it leaves, the stream returned (its descriptor and what
\* fstat said of it).  The record of the call keeps the descriptor table at
\* entry, what the path named when it was opened, the descriptor the open
\* produced (0 if none) and what the open did to the file.
ReturnFOpen(f, ok, err, fdt, out) ==
    /\ g_lastError' = IF err = NoReport THEN g_lastError
                      ELSE SetError(g_lastError, 1, err)
    /\ reported' = IF err = NoReport THEN reported
                   ELSE [reported EXCEPT ![1] = err]
    /\ fds' = fdt
    /\ pc' = "idle"
    /\ frame' = << >>
    /\ last' = IF ~f.obs THEN NoCall
               ELSE [op |-> "SafeFOpen", t |-> 1,
                     args |-> [nul |-> f.nul, mode |-> f.mode, optsNull |-> f.optsNull,
                               opts |-> f.opts],
                     ok |-> ok, err |-> err, errno |-> Unset, out |-> out,
                     pre |-> [fds |-> f.fds, atOpen |-> f.atOpen, fd |-> f.fd, did |-> f.did],
                     cells |-> g_lastError,
                     log |-> IF g_logger /\ err # NoReport THEN <<err>> ELSE << >>]

\* The failure paths after the low-level open: release the descriptor, then
\* SetError and return NULL.
CloseAndFail ==
    ReturnFOpen(frame, FALSE, SAFEOPS_ERR_FILE_ACCESS,
                IF "_WIN32" \in build THEN fclose(fds, frame.fd) ELSE close(fds, frame.fd),
                Unwritten)

\* Entry: the NULL checks and the default options.
CallSafeFOpen(obs) ==
    /\ pc = "idle"
    /\ Open(fds) # Descriptors
    /\ \E nul \in {"none", "filePath", "mode"}, mode \in Modes, optsNull \in BOOLEAN,
          o \in FileOpts :
        LET f == [obs |-> obs, nul |-> nul, mode |-> mode, optsNull |-> optsNull,
                  opts |-> IF optsNull THEN defaultOpts ELSE o,
                  fds |-> fds, fd |-> 0, st |-> "none", atOpen |-> "none", did |-> {}]
        IN  /\ optsNull => o = defaultOpts
            /\ IF nul # "none"
               THEN ReturnFOpen(f, FALSE, SAFEOPS_ERR_NULL_POINTER, fds, Unwritten)
               ELSE /\ frame' = f
                    /\ pc' = "open"
                    /\ UNCHANGED <<g_lastError, reported, last, fds>>
    /\ UNCHANGED fs

\* open (POSIX) or fopen_s (Windows); either can fail for reasons of its own.
DoOpen ==
    /\ pc = "open"
    /\ \E envOk \in BOOLEAN :
        LET r == IF "_WIN32" \in build THEN fopen_s(fs, frame.mode)
                 ELSE open(fs, OpenFlags(build, frame.mode, frame.opts))
            fd == LowestFree(fds)
        IN  IF ~(envOk /\ r.ok)
            THEN /\ ReturnFOpen([frame EXCEPT !.atOpen = fs], FALSE,
                                SAFEOPS_ERR_FILE_ACCESS, fds, Unwritten)
                 /\ UNCHANGED fs
            ELSE /\ fds' = [fds EXCEPT ![fd] = r.kind]
                 /\ fs' = r.fs
                 /\ frame' = [frame EXCEPT !.fd = fd, !.atOpen = fs, !.did = r.did]
                 /\ pc' = "fstat"
                 /\ UNCHANGED <<g_lastError, reported, last>>

\* stat(path) in the place of fstat(fd).
DoStatPath ==
    /\ pc = "fstat"
    /\ \E envOk \in BOOLEAN :
        IF ~envOk \/ fs = "missing"
        THEN CloseAndFail
        ELSE /\ frame' = [frame EXCEPT !.st = Target(fs)]
             /\ pc' = "check"
             /\ UNCHANGED <<g_lastError, reported, last, fds>>
    /\ UNCHANGED fs

\* fstat(fd, &st) / _fstat(fd, &st): the identity of what the descriptor
\* refers to.
DoFstat ==
    /\ pc = "fstat"
    /\ \E envOk \in BOOLEAN :
        IF ~envOk
        THEN CloseAndFail
        ELSE /\ frame' = [frame EXCEPT !.st = fds[frame.fd]]
             /\ pc' = "check"
             /\ UNCHANGED <<g_lastError, reported, last, fds>>
    /\ UNCHANGED fs

\* The type check without the close on its failure path.
DoCheckLeaks ==
    /\ pc = "check"
    /\ IF frame.opts.requireRegularFile /\ ~S_ISREG(frame.st)
       THEN ReturnFOpen(frame, FALSE, SAFEOPS_ERR_FILE_ACCESS, fds, Unwritten)
       ELSE IF "_WIN32" \in build
       THEN ReturnFOpen(frame, TRUE, NoReport, fds, [fd |-> frame.fd, st |-> frame.st])
       ELSE /\ pc' = "fdopen"
            /\ UNCHANGED <<g_lastError, reported, last, fds, frame>>
    /\ UNCHANGED fs

\* The type check; on Windows the stream exists already and is returned.
DoCheck ==
    /\ pc = "check"
    /\ IF frame.opts.requireRegularFile /\ ~S_ISREG(frame.st)
       THEN CloseAndFail
       ELSE IF "_WIN32" \in build
       THEN ReturnFOpen(frame, TRUE, NoReport, fds, [fd |-> frame.fd, st |-> frame.st])
       ELSE /\ pc' = "fdopen"
            /\ UNCHANGED <<g_lastError, reported, last, fds, frame>>
    /\ UNCHANGED fs

\* fdopen(fd, mode), which can fail for want of memory, and fails in a C
\* library that compares the mode with the descriptor when the two disagree.
DoFdopen ==
    /\ pc = "fdopen"
    /\ \E envOk \in BOOLEAN, compares \in BOOLEAN :
        IF ~envOk \/ (compares /\ ~ModeAgrees(OpenFlags(build, frame.mode, frame.opts),
                                              frame.mode))
        THEN CloseAndFail
        ELSE ReturnFOpen(frame, TRUE, NoReport, fds, [fd |-> frame.fd, st |-> frame.st])
    /\ UNCHANGED fs

\* Another process makes the path name something else, at any moment.
Retarget ==
    /\ \E f \in FsStates \ {fs} : fs' = f
    /\ UNCHANGED <<g_lastError, reported, last, pc, fds, frame>>

\* The caller closes a stream SafeFOpen returned.
CallFclose ==
    /\ pc = "idle"
    /\ \E fd \in Open(fds) : fds' = fclose(fds, fd)
    /\ UNCHANGED <<g_lastError, reported, last, pc, fs, frame>>

\* The builds: POSIX with O_NOFOLLOW, POSIX without it, Windows.
InitFile ==
    /\ InitCells
    /\ pc = "idle"
    /\ buf = << >>
    /\ build \in {{"O_NOFOLLOW"}, {}, {"_WIN32"}}
    /\ NoHeap
    /\ result = 0
    /\ fs \in FsStates
    /\ fds = [d \in Descriptors |-> "closed"]
    /\ frame = << >>

NextFile ==
    /\ last = NoCall
    /\ UNCHANGED <<g_logger, buf, build, heapVars, result>>
    /\ \/ \E obs \in BOOLEAN : CallSafeFOpen(obs)
       \/ DoOpen
       \/ DoFstat
       \/ DoCheck
       \/ DoFdopen
       \/ Retarget
       \/ CallFclose

SpecFile == InitFile /\ [][NextFile]_vars

(* ----------------------- wide copy and concatenate ---------------------- *)

\* wcsncpy(dest, src, n): the wide characters of src, at most n, zero-padded
\* to n.
wcsncpy(dest, src, n) ==
    [i \in 1..Len(dest) |->
        IF i <= n THEN (IF i <= strlen(src) THEN src[i] ELSE 0) ELSE dest[i]]

\* wcsncat(dest, src, n): at most n wide characters of src after the string
\* in dest, then a terminator.
wcsncat(dest, src, n) ==
    LET dl == strlen(dest)
        k == IF strlen(src) < n THEN strlen(src) ELSE n
    IN  [i \in 1..Len(dest) |->
            IF i > dl /\ i <= dl + k THEN src[i - dl]
            ELSE IF i = dl + k + 1 THEN 0 ELSE dest[i]]

SafeWStrNCopy(dest, destSize, src, count) ==
    IF dest = NULL \/ src = NULL
    THEN Fail(SAFEOPS_ERR_NULL_POINTER, dest)
    ELSE IF destSize = 0
    THEN Fail(SAFEOPS_ERR_INVALID_PARAM, dest)
    ELSE LET s == SafeWStrLen(src, count, TRUE)
         IN  IF ~s.ok THEN Fail(s.err, dest)
             ELSE LET copyLen == IF s.out < count THEN s.out ELSE count
                  IN  IF copyLen >= destSize
                      THEN Fail(SAFEOPS_ERR_OUT_OF_BOUNDS, dest)
                      ELSE Done([wcsncpy(dest, src, copyLen) EXCEPT ![copyLen + 1] = 0],
                                Unwritten)

SafeWStrNCat(dest, destSize, src, count) ==
    IF dest = NULL \/ src = NULL
    THEN Fail(SAFEOPS_ERR_NULL_POINTER, dest)
    ELSE LET d == SafeWStrLen(dest, destSize, TRUE)
             s == SafeWStrLen(src, count, TRUE)
         IN  IF ~d.ok THEN Fail(d.err, dest)
             ELSE IF ~s.ok THEN Fail(s.err, dest)
             ELSE LET copyLen == IF s.out < count THEN s.out ELSE count
                  IN  IF d.out + copyLen >= destSize
                      THEN Fail(SAFEOPS_ERR_OUT_OF_BOUNDS, dest)
                      ELSE Done([wcsncat(dest, src, copyLen)
                                    EXCEPT ![d.out + copyLen + 1] = 0], Unwritten)

\* src is a wide string literal of at most n characters; count is any number
\* up to one more than that.
CallSafeWStrNCopy(obs, n) ==
    \E nul \in {"none", "dest", "src"} :
    \E destSize \in Pick(nul, 0..Len(buf)) :
    \E src \in Pick(nul, Lits(n)), count \in Pick(nul, 0..(n + 1)) :
        LET r == SafeWStrNCopy(Arg(nul, "dest", buf), destSize, Arg(nul, "src", src),
                               count)
        IN  /\ Finish(1, obs, "SafeWStrNCopy",
                      [nul |-> nul, size |-> destSize, src |-> src, count |-> count],
                      r, IF nul = "dest" THEN buf ELSE r.mem)
            /\ UNCHANGED pc

CallSafeWStrNCat(obs, n) ==
    \E nul \in {"none", "dest", "src"} :
    \E destSize \in Pick(nul, 0..Len(buf)) :
    \E src \in Pick(nul, Lits(n)), count \in Pick(nul, 0..(n + 1)) :
    \E past \in Pick(nul, PastBytes(buf, destSize)) :
        LET r == SafeWStrNCat(Arg(nul, "dest", View(buf, past)), destSize,
                              Arg(nul, "src", src), count)
            args == [nul |-> nul, size |-> destSize, src |-> src, count |-> count,
                     past |-> past]
        IN  \/ /\ Finish(1, obs, "SafeWStrNCat", args,
                          r, IF nul = "dest" THEN buf ELSE Object(r.mem, Len(buf)))
               /\ UNCHANGED pc
            \/ /\ nul = "none"
               /\ Segfault(1, "SafeWStrNCat", args, Examined(View(buf, past), destSize))

\* wchar_t wdest[MaxCap] holding any content.
InitWide ==
    /\ InitCells
    /\ pc = "idle"
    /\ buf \in SeqsOfLen(Byte, MaxCap)
    /\ StringsOnly

NextWide ==
    /\ pc = "idle"
    /\ last = NoCall
    /\ UNCHANGED <<build, heapVars, result, fs, fds>>
    /\ \E obs \in BOOLEAN :
        \/ CallSafeWStrNCopy(obs, MaxSrc)
        \/ CallSafeWStrNCat(obs, MaxSrc)
    /\ pc' = "idle" => UNCHANGED frame

SpecWide == InitWide /\ [][NextWide]_vars

(* ------------------------- reference definitions ----------------------- *)

\* The observed call was op with every pointer argument present.
Called(op) == last.op = op /\ last.args.nul = "none"

\* The call op, every pointer argument present, was killed by a fault.
Killed(op) == pc = "crash" /\ frame # << >> /\ frame.op = op

\* What the observed call's destination pointer addressed before the call.
PreView == View(last.pre, last.args.past)

\* s begins with the characters p.
StartsWith(s, p) == Len(p) <= Len(s) /\ SubSeq(s, 1, Len(p)) = p

\* Left-to-right non-overlapping occurrences of old in text, and text with
\* each of them replaced by new (old is not empty).
RECURSIVE Occurrences(_, _)
Occurrences(text, old) ==
    IF Len(text) < Len(old) THEN 0
    ELSE IF StartsWith(text, old)
    THEN 1 + Occurrences(SubSeq(text, Len(old) + 1, Len(text)), old)
    ELSE Occurrences(Tail(text), old)

RECURSIVE ReplaceAll(_, _, _)
ReplaceAll(text, old, new) ==
    IF Len(text) < Len(old) THEN text
    ELSE IF StartsWith(text, old)
    THEN new \o ReplaceAll(SubSeq(text, Len(old) + 1, Len(text)), old, new)
    ELSE <<Head(text)>> \o ReplaceAll(Tail(text), old, new)

\* C indices below n at which the characters p occur entirely within the
\* first n bytes of s.
OccursWithin(s, n, p) ==
    { i \in 0..(n - Len(p)) : \A k \in 1..Len(p) : s[i + k] = p[k] }

Min(S) == CHOOSE x \in S : \A y \in S : x <= y

\* C indices below n at which s holds a terminator.
TerminatorsBelow(s, n) == { i \in 0..(n - 1) : s[i + 1] = 0 }

(* -------------------------------- claims ------------------------------- *)

\* C1: whenever SafeStrCopy, SafeStrCat, SafeMemCopy or SafeStrReplace
\* returns failure the destination object is byte-for-byte what it was before
\* the call, and each of them returns failure whenever the length it would
\* have to write (terminator included) exceeds the capacity it was given: a
\* call with such arguments returns, it is not killed.
C1_FailureLeavesDestUntouched ==
    /\ (last.op \in {"SafeStrCopy", "SafeStrCat", "SafeMemCopy", "SafeStrReplace"}
            /\ ~last.ok) => buf = last.pre
    /\ (Called("SafeStrCopy") /\ strlen(last.args.src) + 1 > last.args.size)
            => ~last.ok
    /\ (Called("SafeStrCat")
            /\ strlen(PreView) + strlen(last.args.src) + 1 > last.args.size)
            => ~last.ok
    /\ (Called("SafeMemCopy") /\ last.args.srcSize > last.args.size) => ~last.ok
    /\ (Called("SafeStrReplace") /\ strlen(last.args.old) > 0
            /\ Len(ReplaceAll(CStr(PreView), CStr(last.args.old), CStr(last.args.new)))
                   + 1 > last.args.size)
            => ~last.ok
    /\ ~(Killed("SafeStrCat")
            /\ Len(buf) + Len(frame.args.past) + strlen(frame.args.src) + 1
                   > frame.args.size)
    /\ ~(Killed("SafeStrReplace")
            /\ strlen(frame.args.old) > 0
            /\ strlen(frame.args.new) >= strlen(frame.args.old)
            /\ Len(buf) + Len(frame.args.past) + 1 > frame.args.size)

\* C2: every call that returns failure has set the calling thread's
\* last-error cell to the code of that failure, so that SafeOpsGetLastError
\* called next returns a matching code other than Ok.
C2_FailureSetsLastError ==
    (last.op # "none" /\ ~last.ok) =>
        /\ last.err # NoReport
        /\ g_lastError[last.t] = last.err
        /\ g_lastError[last.t] # SAFEOPS_OK

\* C3: a call that returns success leaves every last-error cell as it was
\* and reports nothing, whatever primitives it used on the way; a code left
\* by a failure therefore survives every following successful call.
C3_SuccessKeepsLastError ==
    (last.op # "none" /\ last.ok) =>
        /\ last.err = NoReport
        /\ g_lastError = last.cells

\* A copy between overlapping regions, reported to the logger, made by a
\* thread whose cell held the code of an earlier failure.
C3_Witness ==
    /\ Called("SafeMemCopy")
    /\ last.ok
    /\ last.log = <<SAFEOPS_OK>>
    /\ last.cells[last.t] = SAFEOPS_ERR_ALLOCATION_FAILED
    /\ g_lastError[last.t] = SAFEOPS_ERR_ALLOCATION_FAILED

\* C4: each thread's cell holds the code of that thread's own most recent
\* report (Ok if it made none), SafeOpsGetLastError returns it, and a call
\* by one thread leaves the cells of all other threads as they were.
C4_ThreadIsolation ==
    /\ g_lastError = reported
    /\ last.op = "SafeOpsGetLastError" => last.out = reported[last.t]
    /\ last.op # "none" =>
            \A u \in Threads \ {last.t} : g_lastError[u] = last.cells[u]

\* Thread 1 reads its own code while thread 2 holds a different one.
C4_Witness ==
    /\ last.op = "SafeOpsGetLastError"
    /\ last.t = 1
    /\ last.out = SAFEOPS_ERR_OUT_OF_BOUNDS
    /\ g_lastError[2] = SAFEOPS_ERR_INVALID_PARAM

\* C5: SafeStrCopy with a capacity above zero succeeds exactly when the
\* source is shorter than the capacity; SafeStrLen of the result, bounded by
\* the same capacity, then examines elements of the result only and
\* succeeds with the source's length, which is below
\* the capacity, the result holds the source's characters and the terminator
\* follows them.
C5_CopyThenLength ==
    (Called("SafeStrCopy") /\ last.args.size > 0) =>
        LET src == last.args.src
            size == last.args.size
        IN  /\ last.ok <=> strlen(src) < size
            /\ last.ok =>
                \A past \in SeqsUpTo(Char, 1) :
                    LET r == SafeStrLen(View(buf, past), size, TRUE)
                    IN  /\ Examined(View(buf, past), size) <= size
                        /\ r.ok
                        /\ r.out = strlen(src)
                        /\ r.out < size
                        /\ SubSeq(buf, 1, r.out) = CStr(src)
                        /\ buf[r.out + 1] = 0

\* A two-character source copied over a destination that held no terminator.
C5_Witness ==
    /\ Called("SafeStrCopy")
    /\ last.ok
    /\ strlen(last.args.src) = 2
    /\ \A i \in 1..Len(last.pre) : last.pre[i] # 0

\* C6: SafeStrCat onto a destination terminated within the capacity
\* succeeds exactly when the two lengths together are below the capacity;
\* the destination then holds its previous characters, the source's
\* characters and a terminator, and every byte after that terminator is
\* unchanged.  No such call is killed.
C6_Concatenate ==
    /\ (Called("SafeStrCat") /\ TerminatorsBelow(last.pre, last.args.size) # {}) =>
        LET destLen == Min(TerminatorsBelow(last.pre, last.args.size))
            srcLen == strlen(last.args.src)
        IN  /\ last.ok <=> destLen + srcLen < last.args.size
            /\ last.ok =>
                buf = SubSeq(last.pre, 1, destLen) \o CStr(last.args.src) \o <<0>>
                        \o SubSeq(last.pre, destLen + srcLen + 2, Len(last.pre))
    /\ ~(Killed("SafeStrCat") /\ TerminatorsBelow(buf, frame.args.size) # {})

\* A non-empty source appended to a non-empty destination.
C6_Witness ==
    /\ Called("SafeStrCat")
    /\ last.ok
    /\ last.pre[1] # 0
    /\ strlen(last.args.src) > 0
    /\ buf # last.pre

\* C7: SafeStrLen and SafeWStrLen succeed, with the terminator's index,
\* exactly when a terminator lies at an index below maxLen, and fail with
\* OutOfBounds otherwise: the element at index maxLen is never examined, so
\* that no call is killed for reading past an object of maxLen elements.
C7_BoundedLength ==
    /\ ((Called("SafeStrLen") \/ Called("SafeWStrLen"))) =>
        LET found == TerminatorsBelow(last.pre, last.args.size)
        IN  /\ last.ok <=> found # {}
            /\ last.ok => (found # {} /\ last.out = Min(found))
            /\ ~last.ok => last.err = SAFEOPS_ERR_OUT_OF_BOUNDS
    /\ ~Killed("SafeStrLen")
    /\ ~Killed("SafeWStrLen")

\* C8: SafeStrFind on a haystack whose terminator is not within its first
\* haystackLen bytes, with a needle of 1..haystackLen characters, searches
\* those bytes: it returns haystackLen exactly when the needle does not occur
\* entirely within them, otherwise the offset of the first such occurrence,
\* and never a position above haystackLen; an empty or longer needle fails
\* with InvalidParam.
C8_FindWithinLength ==
    (Called("SafeStrFind") /\ TerminatorsBelow(last.pre, last.args.size) = {}) =>
        LET needle == CStr(last.args.src)
            n == last.args.size
            occ == OccursWithin(last.pre, n, needle)
        IN  IF Len(needle) = 0 \/ Len(needle) > n
            THEN ~last.ok /\ last.err = SAFEOPS_ERR_INVALID_PARAM
            ELSE /\ last.ok
                 /\ last.out <= n
                 /\ last.out = n <=> occ = {}
                 /\ occ # {} => last.out = Min(occ)

\* C9: SafeStrReplace with a non-empty old string, when the final length
\* is below the capacity and the scratch allocation succeeds, succeeds,
\* reports the final length and leaves the text with every left-to-right
\* non-overlapping occurrence replaced, followed by a terminator; with no
\* occurrence, or with new equal to old, the object is unchanged and the
\* original length is reported.  A call on an object that holds the text's
\* terminator is not killed.
C9_ReplaceAll ==
    /\ ~(Killed("SafeStrReplace") /\ TerminatorsBelow(buf, Len(buf)) # {})
    /\ (Called("SafeStrReplace") /\ strlen(last.args.old) > 0) =>
        LET text == CStr(PreView)
            old == CStr(last.args.old)
            new == CStr(last.args.new)
            count == Occurrences(text, old)
            finalLength == Len(text) + count * (Len(new) - Len(old))
        IN  (finalLength < last.args.size /\ last.args.heapOk) =>
                /\ last.ok
                /\ last.out = finalLength
                /\ SubSeq(buf, 1, finalLength) = ReplaceAll(text, old, new)
                /\ buf[finalLength + 1] = 0
                /\ (count = 0 \/ new = old) =>
                        (buf = last.pre /\ last.out = Len(text))

\* Two occurrences replaced by a string of another length.
C9_Witness ==
    /\ Called("SafeStrReplace")
    /\ last.ok
    /\ Occurrences(CStr(PreView), CStr(last.args.old)) = 2
    /\ strlen(last.args.new) # strlen(last.args.old)
    /\ buf # last.pre

TextHelloHow == <<72, 101, 108, 108, 111, 44, 32, 87, 111, 114, 108, 100, 33, 32, 72, 111, 119, 32, 97, 114, 101, 32, 121, 111, 117, 63>>
TextEveryone == <<72, 101, 108, 108, 111, 44, 32, 69, 118, 101, 114, 121, 111, 110, 101, 33, 32, 72, 111, 119, 32, 97, 114, 101, 32, 121, 111, 117, 63>>

\* The first two calls of the test on its 50-byte array: after SafeStrCat
\* the array holds "Hello, World! How are you?".
E2EConcatenated ==
    (pc = "find" /\ Len(buf) = TestCap) =>
        /\ last.ok
        /\ CStr(View(buf, << >>)) = TextHelloHow

\* The third call: SafeStrReplace, its scratch allocation granted, succeeds
\* and leaves "Hello, Everyone! How are you?", reporting length n.
E2EReplaced(n) ==
    (pc = "done" /\ Len(buf) = TestCap /\ last.args.heapOk) =>
        /\ last.ok
        /\ CStr(View(buf, << >>)) = TextEveryone
        /\ last.out = n

\* C10 as stated: the reported length is 31.
C10_EndToEnd31 == E2EConcatenated /\ E2EReplaced(31)

\* C10, amended: concatenation then replacement on the 50-byte array give
\* "Hello, Everyone! How are you?" and the reported length is 29, the
\* number of characters of that text.
C10_EndToEnd29 == E2EConcatenated /\ E2EReplaced(Len(TextEveryone))

C10_Witness ==
    /\ pc = "done"
    /\ Len(buf) = TestCap
    /\ last.ok
    /\ last.out = 29
    /\ CStr(View(buf, << >>)) = TextEveryone

\* C11: SafeMemCopy with both pointers present fails exactly when srcSize
\* exceeds destSize; otherwise it succeeds, the first srcSize bytes of the
\* destination are the bytes the source held before the call wherever the
\* two regions lie, nothing is passed to SetError, and what the logger is
\* told about an overlap carries the Overlap code.
C11_MemCopy ==
    Called("SafeMemCopy") =>
        LET a == last.args
        IN  /\ last.ok <=> a.srcSize <= a.size
            /\ last.ok =>
                /\ SubSeq(buf, a.dest + 1, a.dest + a.srcSize)
                        = SubSeq(last.pre, a.src + 1, a.src + a.srcSize)
                /\ last.err = NoReport
                /\ g_lastError = last.cells
                /\ \A i \in 1..Len(last.log) : last.log[i] = SAFEOPS_ERR_OVERLAP

\* C12: SafeFree on a pointer variable that holds a region passes the region
\* to free once and leaves the variable null; on a null variable, or with no
\* variable, it changes nothing.  Hence release calls that follow one another
\* on the same variable free its region once: no variable has had free called
\* through it twice since it was assigned.
C12_ReleaseOnce ==
    /\ Called("SafeFree") =>
            LET h == last.args.h
                p == last.pre.ptr[h]
            IN  IF p = NullPtr
                THEN heap = last.pre.heap /\ ptr = last.pre.ptr
                ELSE /\ heap[p].frees = last.pre.heap[p].frees + 1
                     /\ heap[p].state = "freed"
                     /\ ptr[h] = NullPtr
                     /\ \A x \in Regions \ {p} : heap[x] = last.pre.heap[x]
    /\ (last.op = "SafeFree" /\ last.args.nul = "ptrRef") =>
            (heap = last.pre.heap /\ ptr = last.pre.ptr)
    /\ \A h \in Handles : released[h] <= 1

\* release(h); release(h): the second call finds the variable null and the
\* region has been freed once.
C12_Witness ==
    /\ Called("SafeFree")
    /\ last.pre.ptr[last.args.h] = NullPtr
    /\ released[last.args.h] = 1
    /\ \E x \in Regions : heap[x].frees = 1
    /\ heap = last.pre.heap

\* C13: after a release through one pointer variable every variable that
\* held the same region is null, so that no region is ever passed to free
\* twice.
C13_AliasesSeeEmpty ==
    /\ (last.op \in {"SafeFree", "SafeFreeTyped"} /\ last.args.nul = "none"
            /\ last.pre.ptr[last.args.h] # NullPtr) =>
            \A k \in Handles :
                last.pre.ptr[k] = last.pre.ptr[last.args.h] => ptr[k] = NullPtr
    /\ \A x \in Regions : heap[x].frees <= 1

\* C14: SafeFreeTyped on a variable that holds a region zeroes the first size
\* bytes of the region, frees it, nulls the variable and returns true; on a
\* null variable it returns false and leaves InvalidParam in the last-error
\* cell, whereas SafeFree on a null variable reports nothing and changes
\* nothing.
C14_ReleaseSecure ==
    /\ Called("SafeFreeTyped") =>
            LET h == last.args.h
                p == last.pre.ptr[h]
            IN  IF p # NullPtr
                THEN /\ last.ok
                     /\ \A i \in 1..last.args.size : last.out[i] = 0
                     /\ heap[p].state = "freed"
                     /\ heap[p].frees = last.pre.heap[p].frees + 1
                     /\ ptr[h] = NullPtr
                ELSE /\ ~last.ok
                     /\ g_lastError[last.t] = SAFEOPS_ERR_INVALID_PARAM
    /\ (Called("SafeFree") /\ last.pre.ptr[last.args.h] = NullPtr) =>
            /\ last.err = NoReport
            /\ last.errno = Unset
            /\ g_lastError = last.cells
            /\ heap = last.pre.heap /\ ptr = last.pre.ptr

\* C15: SafeAddInt fails exactly when the sum of its arguments lies outside
\* INT_MIN..INT_MAX, above or below, and otherwise stores the exact sum;
\* SafeCastLongLongToInt fails exactly when its argument lies outside
\* INT_MIN..INT_MAX and otherwise stores the argument unchanged.
C15_ExactOrFail ==
    /\ Called("SafeAddInt") =>
            /\ last.ok <=> (last.args.a + last.args.b) \in IntRange
            /\ last.ok => result = last.args.a + last.args.b
    /\ Called("SafeCastLongLongToInt") =>
            /\ last.ok <=> last.args.val \in IntRange
            /\ last.ok => result = last.args.val

\* An addition that leaves the range at its lower end has failed.
C15_Witness ==
    /\ Called("SafeAddInt")
    /\ last.args.a = INT_MIN
    /\ last.args.b = -1
    /\ ~last.ok
    /\ last.errno = "EOVERFLOW"

\* C16: after a failed call the caller's out-parameter holds the value it
\* held before the call: the int of SafeReadInt, SafeAddInt and
\* SafeCastLongLongToInt, the length and position of SafeStrLen, SafeStrFind
\* and SafeStrReplace.
C16_FailureLeavesOutput ==
    /\ (last.op \in {"SafeReadInt", "SafeAddInt", "SafeCastLongLongToInt"} /\ ~last.ok) =>
            result = last.pre.result
    /\ (last.op \in {"SafeStrLen", "SafeWStrLen", "SafeStrFind", "SafeStrReplace"}
            /\ ~last.ok) =>
            last.out = Unwritten

\* C17: SafeWriteInt and SafeReadInt succeed exactly when their pointers are
\* present and index < arraySize.  A successful write changes element index
\* only, a failed one changes no element, a read stores the element in the
\* caller's int and changes no element, and a read that follows a write of
\* the same index stores the written value.
C17_IndexedAccess ==
    /\ last.op = "SafeWriteInt" =>
            /\ last.ok <=> (last.args.nul = "none" /\ last.args.index < last.args.size)
            /\ last.ok => buf = [last.pre.array EXCEPT ![last.args.index + 1] = last.args.value]
            /\ ~last.ok => buf = last.pre.array
    /\ last.op = "SafeReadInt" =>
            /\ last.ok <=> (last.args.nul = "none" /\ last.args.index < last.args.size)
            /\ last.ok => result = last.pre.array[last.args.index + 1]
            /\ buf = last.pre.array
    /\ last.op = "test_array_operations" =>
            /\ last.ok
            /\ result = last.args.value
            /\ \A i \in 1..ArrayLen :
                    i # last.args.index + 1 => buf[i] = last.pre.array[i]

\* A write at index = arraySize into an array that holds values has failed.
C17_Witness ==
    /\ Called("SafeWriteInt")
    /\ last.args.index = ArrayLen
    /\ last.args.size = ArrayLen
    /\ ~last.ok
    /\ buf = last.pre.array
    /\ buf # Zeros(ArrayLen)

\* C18: when SafeFOpen returns NULL the descriptor table is what it was when
\* the call began: a descriptor the call had opened is closed again on every
\* failure path.
C18_NoLeak ==
    (last.op = "SafeFOpen" /\ ~last.ok) =>
        /\ fds = last.pre.fds
        /\ last.pre.fd # 0 => fds[last.pre.fd] = "closed"

\* The open produced a descriptor of something that is not a regular file,
\* and the call failed at the type check.
C18_Witness ==
    /\ Called("SafeFOpen")
    /\ ~last.ok
    /\ last.pre.fd # 0
    /\ last.pre.atOpen = "device"
    /\ last.args.opts.requireRegularFile
    /\ fds = last.pre.fds

\* C19: with requireRegularFile set, a stream SafeFOpen returns is over a
\* descriptor that refers to a regular file and of which fstat said so,
\* whatever the path was made to name while the call ran.
C19_TypeOfDescriptor ==
    (last.op = "SafeFOpen" /\ last.ok /\ last.args.opts.requireRegularFile) =>
        /\ S_ISREG(last.out.st)
        /\ fds[last.out.fd] = "regular"

\* The path named a regular file when it was opened and names a device when
\* the call returns.
C19_Witness ==
    /\ Called("SafeFOpen")
    /\ last.ok
    /\ last.args.opts.requireRegularFile
    /\ last.pre.atOpen = "regular"
    /\ fs = "device"
    /\ fds[last.out.fd] = "regular"

\* C20: SafeFOpen on a path that is a symbolic link when it is opened, with
\* followSymlinks false (the default when opts is NULL), returns NULL, leaves
\* FileAccess in the last-error cell and leaves the descriptor table as it
\* was.
C20_NoFollow ==
    (Called("SafeFOpen") /\ ~last.args.opts.followSymlinks /\ IsLink(last.pre.atOpen)) =>
        /\ ~last.ok
        /\ last.err = SAFEOPS_ERR_FILE_ACCESS
        /\ g_lastError[last.t] = SAFEOPS_ERR_FILE_ACCESS
        /\ fds = last.pre.fds

\* C21: when SafeFOpen returns NULL the call has neither created the file
\* nor cut it to length zero, whatever mode string it was given.
C21_FailedOpenNoEffect ==
    (Called("SafeFOpen") /\ ~last.ok) => last.pre.did = {}

\* C22: with n the smaller of the source's length and count, SafeWStrNCopy
\* succeeds whenever n < destSize and leaves the first n elements of the
\* source and a terminator in dest; SafeWStrNCat on a terminated destination
\* succeeds whenever destLen + n < destSize and leaves the destination's
\* string, those n elements and a terminator, also when the source is longer
\* than count.
C22_WideCount ==
    LET a == last.args
        sl == strlen(a.src)
        n == IF sl < a.count THEN sl ELSE a.count
    IN  /\ (Called("SafeWStrNCopy") /\ n < a.size) =>
                /\ last.ok
                /\ SubSeq(buf, 1, n) = SubSeq(a.src, 1, n)
                /\ buf[n + 1] = 0
        /\ (Called("SafeWStrNCat") /\ TerminatorsBelow(last.pre, a.size) # {}
                /\ strlen(last.pre) + n < a.size) =>
                LET dl == strlen(last.pre)
                IN  /\ last.ok
                    /\ SubSeq(buf, 1, dl) = SubSeq(last.pre, 1, dl)
                    /\ SubSeq(buf, dl + 1, dl + n) = SubSeq(a.src, 1, n)
                    /\ buf[dl + n + 1] = 0

=============================================================================
